---- MODULE Spec2Model ----
(***************************************************************************)
(* Model of OpenCL.hpp: the OpenCLWrapper::OpenCL class (device selection, *)
(* lazy initialisation of device list / context / queue, kernel dispatch,  *)
(* buffer transfers, last-event tracking, GetGridSize) and the driver      *)
(* program main() that follows it in the same file.                        *)
(*                                                                         *)
(* Conventions                                                             *)
(*  - a cl_device_type / unsigned long bit mask is the set of the positions*)
(*    of its one bits (CL_DEVICE_TYPE_GPU = 1 << 2 is {2});                *)
(*  - a size_t is its four 16-bit limbs, least significant first, so that  *)
(*    the conversion long -> size_t keeps its 64-bit wrap-around;          *)
(*  - status codes are the names of the OpenCL constants;                  *)
(*  - a device handle is the index of the device in Devs;                  *)
(*  - the results of the calls into the OpenCL library are inputs: the     *)
(*    set x.fails names the library calls that fail in one operation.      *)
(***************************************************************************)
EXTENDS Integers, Sequences, FiniteSets, TLC

VARIABLES
    Devs,           \* the machine: the devices of every platform, in platform order
    mEvent,         \* cl::Event mEvent (0: the default-constructed, null event)
    mDevice,        \* unsigned int mDevice
    mContext,       \* cl::Context * mContext (0: null)
    mBuildOptions,  \* std::string mBuildOptions
    mQueue,         \* cl::CommandQueue * mQueue (0: null)
    mTargetDevice,  \* cl_device_type mTargetDevice
    mDevices,       \* std::vector<cl::Device> * mDevices ([null |-> TRUE]: 0)
    created,        \* how many device lists / contexts / queues were created and kept
    issued,         \* the number of events the library has created (event k is the k-th)
    calls,          \* the library calls made by the last operation, in order
    op,             \* the last operation
    arg,            \* its input
    ret,            \* its return value
    out,            \* its output parameter
    drv             \* the driver: main()'s inputs, position and locals

vars == <<Devs, mEvent, mDevice, mContext, mBuildOptions, mQueue, mTargetDevice,
          mDevices, created, issued, calls, op, arg, ret, out, drv>>

---------------------------------------------------------------------------
\* Bounds of the model
MaxPlatforms == 2
MaxDevices == 2
MaxArgs == 2
MaxEvents == 2
MaxSize == 1100
NegSizes == 2

---------------------------------------------------------------------------
\* CL/cl.h values used by the source
CL_SUCCESS == "CL_SUCCESS"
CL_DEVICE_NOT_FOUND == "CL_DEVICE_NOT_FOUND"
CL_OUT_OF_HOST_MEMORY == "CL_OUT_OF_HOST_MEMORY"
CL_INVALID_OPERATION == "CL_INVALID_OPERATION"

CL_DEVICE_TYPE_DEFAULT == {0}
CL_DEVICE_TYPE_CPU == {1}
CL_DEVICE_TYPE_GPU == {2}
CL_DEVICE_TYPE_ACCELERATOR == {3}
CL_DEVICE_TYPE_ALL == 0..31

\* CL_DEVICE_TYPE_##type of BROWSE_DEVICES
TypeMask(type) ==
    CASE type = "ACCELERATOR" -> CL_DEVICE_TYPE_ACCELERATOR
      [] type = "GPU" -> CL_DEVICE_TYPE_GPU
      [] type = "CPU" -> CL_DEVICE_TYPE_CPU

DeviceTypes == {"ACCELERATOR", "GPU", "CPU"}

\* enum OpenCLParameters
OpenCLParameters == {"TargetDevice", "BuildOptions", "MaxParameters"}

---------------------------------------------------------------------------
\* The object as one value, so that a method's steps can be composed
Obj ==
    [mEvent |-> mEvent, mDevice |-> mDevice, mContext |-> mContext,
     mBuildOptions |-> mBuildOptions, mQueue |-> mQueue,
     mTargetDevice |-> mTargetDevice, mDevices |-> mDevices,
     created |-> created, issued |-> issued, calls |-> <<>>]

NullDevices == [null |-> TRUE, list |-> <<>>]

\* OpenCL::OpenCL()
Constructed ==
    [mEvent |-> 0, mDevice |-> 0, mContext |-> 0, mBuildOptions |-> "",
     mQueue |-> 0, mTargetDevice |-> CL_DEVICE_TYPE_ALL, mDevices |-> NullDevices,
     created |-> [Devices |-> 0, Context |-> 0, Queue |-> 0],
     issued |-> 0, calls |-> <<>>]

\* the result of a library call that the inputs x let fail with code err
Res(x, api, pos, err) == IF <<api, pos>> \in x.fails THEN err ELSE CL_SUCCESS

\* record a library call in the trace of the running operation
Call(o, api, pos, err) ==
    [o EXCEPT !.calls = Append(@, [api |-> api, arg |-> pos, err |-> err])]

\* what abort() leaves of an operation whose assert failed
SIGABRT == "SIGABRT"

\* m##type == 0
IsNull(o, member) ==
    CASE member = "mDevices" -> o.mDevices.null
      [] member = "mContext" -> o.mContext = 0
      [] member = "mQueue" -> o.mQueue = 0

\* assert(member != 0) for each of the members, in the order written: every
\* assertion evaluated is recorded in the trace, and the first one that fails
\* aborts the program
RECURSIVE Asserts(_, _)
Asserts(o, members) ==
    IF members = <<>> THEN [o |-> o, err |-> CL_SUCCESS]
    ELSE IF IsNull(o, Head(members))
    THEN [o |-> Call(o, "assert", Head(members), SIGABRT), err |-> SIGABRT]
    ELSE Asserts(Call(o, "assert", Head(members), CL_SUCCESS), Tail(members))

---------------------------------------------------------------------------
\* Device selection

\* getInfo<CL_DEVICE_AVAILABLE>() && getInfo<CL_DEVICE_COMPILER_AVAILABLE>()
UsableNoCompiler(d) == Devs[d].avail
Usable(d) == Devs[d].avail /\ Devs[d].comp

\* the devices of one type that platform p reports, in the platform's order
DevicesOf(p, type) ==
    SelectSeq([h \in 1..Len(Devs) |-> h],
              LAMBDA h : Devs[h].plat = p /\ Devs[h].type = type)

\* cl::Platform::getDevices(type, mDevices): clGetDeviceIDs answers
\* CL_DEVICE_NOT_FOUND when the platform has no device of the type, and the
\* vector is then left as it was
getDevices(p, type, cur) ==
    LET ids == DevicesOf(p, type)
    IN  IF ids = <<>>
        THEN [err |-> CL_DEVICE_NOT_FOUND, list |-> cur]
        ELSE [err |-> CL_SUCCESS, list |-> ids]

\* the inner loop of BROWSE_DEVICES: the first j >= from (0-based) whose device
\* is usable, or -1
RECURSIVE ScanDevices(_, _)
ScanDevices(list, j) ==
    IF j >= Len(list) THEN -1
    ELSE IF Usable(list[j + 1]) THEN j
    ELSE ScanDevices(list, j + 1)

\* BROWSE_DEVICES(type), from platform i (0-based) on
RECURSIVE BROWSE_DEVICES(_, _, _)
BROWSE_DEVICES(type, i, o) ==
    IF i >= MaxPlatforms THEN [found |-> FALSE, o |-> o]
    ELSE
        LET Scanned(o1, j) ==
                IF j >= 0
                THEN [found |-> TRUE, o |-> [o1 EXCEPT !.mDevice = j]]
                ELSE BROWSE_DEVICES(type, i + 1, o1)
            Got(g) ==
                Scanned(Call([o EXCEPT !.mDevices.list = g.list], "getDevices", i, g.err),
                        ScanDevices(g.list, 0))
        IN  Got(getDevices(i + 1, type, o.mDevices.list))

\* mTargetDevice == CL_DEVICE_TYPE_ALL ||
\*     mTargetDevice & (CL_DEVICE_TYPE_DEFAULT | CL_DEVICE_TYPE_##type)
BrowsesEveryClass(target, type) == target # {}
Browses(target, type) ==
    \/ target = CL_DEVICE_TYPE_ALL
    \/ target \cap (CL_DEVICE_TYPE_DEFAULT \cup TypeMask(type)) # {}

\* the three guarded BROWSE_DEVICES of InitializeDevices, in the source's order
RECURSIVE BrowseAll(_, _)
BrowseAll(types, o) ==
    IF types = <<>> THEN [found |-> FALSE, o |-> o]
    ELSE IF Browses(o.mTargetDevice, Head(types))
    THEN LET Then(b) == IF b.found THEN b ELSE BrowseAll(Tail(types), b.o)
         IN  Then(BROWSE_DEVICES(Head(types), 0, o))
    ELSE BrowseAll(Tail(types), o)

BrowseOrderGpuFirst == <<"GPU", "ACCELERATOR", "CPU">>
BrowseOrder == <<"ACCELERATOR", "GPU", "CPU">>

\* OpenCL::InitializeDevices
InitializeDevicesKeepsList(o, x) ==
    IF <<"new Devices", 0>> \in x.fails
    THEN [o |-> [o EXCEPT !.mDevices = NullDevices], err |-> CL_OUT_OF_HOST_MEMORY]
    ELSE
        LET Browsed(b) ==
                IF b.found
                THEN [o |-> [b.o EXCEPT !.created.Devices = @ + 1], err |-> CL_SUCCESS]
                ELSE [o |-> b.o, err |-> CL_DEVICE_NOT_FOUND]
        IN  Browsed(BrowseAll(BrowseOrder,
                Call([o EXCEPT !.mDevices = [null |-> FALSE, list |-> <<>>]],
                     "Platform::get", 0, CL_SUCCESS)))
InitializeDevices(o, x) ==
    IF <<"new Devices", 0>> \in x.fails
    THEN [o |-> [o EXCEPT !.mDevices = NullDevices], err |-> CL_OUT_OF_HOST_MEMORY]
    ELSE
        LET Browsed(b) ==
                IF b.found
                THEN [o |-> [b.o EXCEPT !.created.Devices = @ + 1], err |-> CL_SUCCESS]
                ELSE [o |-> [b.o EXCEPT !.mDevices = NullDevices],
                      err |-> CL_DEVICE_NOT_FOUND]
        IN  Browsed(BrowseAll(BrowseOrder,
                Call([o EXCEPT !.mDevices = [null |-> FALSE, list |-> <<>>]],
                     "Platform::get", 0, CL_SUCCESS)))

\* INIT(Devices)
INIT_Devices(o, x) ==
    IF o.mDevices.null THEN InitializeDevices(o, x)
    ELSE [o |-> o, err |-> CL_SUCCESS]

---------------------------------------------------------------------------
\* Context and queue

\* mDevices->at(mDevice): std::out_of_range when the index is not in the vector
\* (modelled as the handle -1, which is no device)
At(list, i) == IF i < Len(list) THEN list[i + 1] ELSE -1

\* OpenCL::InitializeContext
InitializeContext(o, x) ==
    LET Created(o1, Error) ==
            IF Error # CL_SUCCESS
            THEN [o |-> [o1 EXCEPT !.mContext = 0], err |-> Error]
            ELSE [o |-> [o1 EXCEPT !.mContext = o1.created.Context + 1,
                                   !.created.Context = @ + 1],
                  err |-> Error]
        New(o1, Error) == Created(Call(o1, "Context", 0, Error), Error)
        Checked(a) ==
            IF a.err # CL_SUCCESS THEN a
            ELSE IF <<"new Context", 0>> \in x.fails
            THEN [o |-> [a.o EXCEPT !.mContext = 0], err |-> CL_OUT_OF_HOST_MEMORY]
            ELSE New(a.o, Res(x, "Context", 0, "CL_DEVICE_NOT_AVAILABLE"))
        Then(d) ==
            IF d.err # CL_SUCCESS THEN d ELSE Checked(Asserts(d.o, <<"mDevices">>))
    IN  Then(INIT_Devices(o, x))

\* INIT(Context)
INIT_Context_Always(o, x) == InitializeContext(o, x)
INIT_ContextIgnoresError(o, x) ==
    IF o.mContext = 0 THEN [o |-> InitializeContext(o, x).o, err |-> CL_SUCCESS]
    ELSE [o |-> o, err |-> CL_SUCCESS]
INIT_Context(o, x) ==
    IF o.mContext = 0 THEN InitializeContext(o, x)
    ELSE [o |-> o, err |-> CL_SUCCESS]

\* OpenCL::InitializeQueue
InitializeQueue(o, x) ==
    LET Created(o1, Error) ==
            IF Error # CL_SUCCESS
            THEN [o |-> [o1 EXCEPT !.mQueue = 0], err |-> Error]
            ELSE [o |-> [o1 EXCEPT !.mQueue = o1.created.Queue + 1,
                                   !.created.Queue = @ + 1],
                  err |-> Error]
        New(o1, Error) ==
            Created(Call(o1, "CommandQueue", At(o1.mDevices.list, o1.mDevice), Error),
                    Error)
        Checked(a) ==
            IF a.err # CL_SUCCESS THEN a
            ELSE IF <<"new Queue", 0>> \in x.fails
            THEN [o |-> [a.o EXCEPT !.mQueue = 0], err |-> CL_OUT_OF_HOST_MEMORY]
            ELSE New(a.o, Res(x, "CommandQueue", 0, "CL_INVALID_QUEUE_PROPERTIES"))
        Then(c) ==
            IF c.err # CL_SUCCESS THEN c
            ELSE Checked(Asserts(c.o, <<"mDevices", "mContext">>))
    IN  Then(INIT_Context(o, x))

\* INIT(Queue)
INIT_Queue(o, x) ==
    IF o.mQueue = 0 THEN InitializeQueue(o, x)
    ELSE [o |-> o, err |-> CL_SUCCESS]

---------------------------------------------------------------------------
\* Grid size

\* const long MaxThreads = 512
MaxThreads == 512

\* the k-th 16-bit limb of the two's complement representation of n
RECURSIVE Limb(_, _)
Limb(n, k) == IF k = 0 THEN n % (2 ^ 16) ELSE Limb(n \div (2 ^ 16), k - 1)

\* the conversion of a long to the ::size_t that cl::NDRange stores (64 bits)
ToSizeT(n) == <<Limb(n, 0), Limb(n, 1), Limb(n, 2), Limb(n, 3)>>

\* std::min(MaxThreads, Size)
Min(a, b) == IF b < a THEN b ELSE a

\* for (int i = MaxThreads; i > 0; i--) if (!(Size % i)) ... break;
\* the i at which the loop over hi, hi - 1, ..., lo breaks, 0 when it runs out.
\* The descending scan is evaluated by halves (upper half first), which visits
\* the same i in the same order with a small evaluation depth.
RECURSIVE ScanDown(_, _, _)
ScanDown(Size, hi, lo) ==
    IF hi < lo THEN 0
    ELSE IF hi = lo THEN (IF Size % hi = 0 THEN hi ELSE 0)
    ELSE LET mid == (lo + hi + 1) \div 2
             upper == ScanDown(Size, hi, mid)
         IN  IF upper > 0 THEN upper ELSE ScanDown(Size, mid - 1, lo)

\* OpenCL::GetGridSize; a cl::NDRange is the sequence of its sizes
GetGridSizeNoLoop(Size) ==
    [LocalSize |-> <<ToSizeT(Min(MaxThreads, Size))>>, GlobalSize |-> <<ToSizeT(Size)>>]
GetGridSizeLocalGlobal(Size) ==
    [LocalSize |-> <<ToSizeT(Min(MaxThreads, Size))>>,
     GlobalSize |-> <<ToSizeT(Min(MaxThreads, Size))>>]
GetGridSize(Size) ==
    LET LocalSize ==
            IF Size <= MaxThreads
            THEN <<ToSizeT(Min(MaxThreads, Size))>>
            ELSE LET i == ScanDown(Size, MaxThreads, 1)
                 IN  IF i > 0 THEN <<ToSizeT(i), ToSizeT(Size \div i)>> ELSE <<>>
    IN  [LocalSize |-> LocalSize, GlobalSize |-> <<ToSizeT(Size)>>]

---------------------------------------------------------------------------
\* Enqueueing, events

\* cl::CommandQueue::enqueue*(..., event): on success the library creates an
\* event, and stores it in *event when event is not null
enqueue(o, api, a, err, event) ==
    LET Made(o1) ==
            IF err # CL_SUCCESS THEN [o |-> o1, err |-> err]
            ELSE [o |-> IF event = "&mEvent"
                        THEN [o1 EXCEPT !.issued = @ + 1, !.mEvent = o1.issued + 1]
                        ELSE [o1 EXCEPT !.issued = @ + 1],
                  err |-> err]
    IN  Made(Call(o, api, a, err))

\* OpenCL::ExecuteKernelFromKernelEx(Kernel, DataSize, Position)
ExecuteKernelFromKernelEx0(o, x, DataSize) ==
    LET Checked(a) ==
            IF a.err # CL_SUCCESS THEN a
            ELSE enqueue(a.o, "enqueueNDRangeKernel", GetGridSize(DataSize),
                         Res(x, "enqueueNDRangeKernel", 0, "CL_INVALID_WORK_GROUP_SIZE"),
                         "&mEvent")
        Then(q) ==
            IF q.err # CL_SUCCESS THEN q
            ELSE Checked(Asserts(q.o, <<"mDevices", "mContext", "mQueue">>))
    IN  Then(INIT_Queue(o, x))

\* the parameter pack of a call with n kernel arguments: the k-th argument given
\* is named k
Pack(n) == [k \in 1..n |-> k]

\* OpenCL::ExecuteKernelFromKernelEx(Kernel, DataSize, Position, KernelArg,
\* KernelArgs...): KernelArgs is the pack still to bind, its head is KernelArg
RECURSIVE ExecuteKernelFromKernelEx(_, _, _, _, _)
ExecuteKernelFromKernelEx(o, x, DataSize, Position, KernelArgs) ==
    IF KernelArgs = <<>> THEN ExecuteKernelFromKernelEx0(o, x, DataSize)
    ELSE ExecuteKernelFromKernelEx(
             Call(o, "setArg", [Position |-> Position, KernelArg |-> Head(KernelArgs)],
                  Res(x, "setArg", Position, "CL_INVALID_ARG_INDEX")),
             x, DataSize, Position + 1, Tail(KernelArgs))

\* OpenCL::ReadBuffer
ReadBufferNoEvent(o, x) ==
    LET Checked(a) ==
            IF a.err # CL_SUCCESS THEN a
            ELSE enqueue(a.o, "enqueueReadBuffer", 0,
                         Res(x, "enqueueReadBuffer", 0, "CL_INVALID_MEM_OBJECT"), "0")
        Then(q) ==
            IF q.err # CL_SUCCESS THEN q
            ELSE Checked(Asserts(q.o, <<"mDevices", "mContext", "mQueue">>))
    IN  Then(INIT_Queue(o, x))
ReadBuffer(o, x) ==
    LET Checked(a) ==
            IF a.err # CL_SUCCESS THEN a
            ELSE enqueue(a.o, "enqueueReadBuffer", 0,
                         Res(x, "enqueueReadBuffer", 0, "CL_INVALID_MEM_OBJECT"), "&mEvent")
        Then(q) ==
            IF q.err # CL_SUCCESS THEN q
            ELSE Checked(Asserts(q.o, <<"mDevices", "mContext", "mQueue">>))
    IN  Then(INIT_Queue(o, x))

\* OpenCL::WriteBuffer
WriteBuffer(o, x) ==
    LET Checked(a) ==
            IF a.err # CL_SUCCESS THEN a
            ELSE enqueue(a.o, "enqueueWriteBuffer", 0,
                         Res(x, "enqueueWriteBuffer", 0, "CL_INVALID_MEM_OBJECT"), "&mEvent")
        Then(q) ==
            IF q.err # CL_SUCCESS THEN q
            ELSE Checked(Asserts(q.o, <<"mDevices", "mContext", "mQueue">>))
    IN  Then(INIT_Queue(o, x))

\* cl::Event::wait / getProfilingInfo on mEvent: the null event is no valid event
EventRes(o, x, api, a, err) ==
    IF o.mEvent = 0 THEN "CL_INVALID_EVENT" ELSE Res(x, api, a, err)

\* OpenCL::WaitForLastEvent
WaitForLastEvent(o, x) ==
    LET Made(e) == [o |-> Call(o, "wait", o.mEvent, e), err |-> e]
    IN  Made(EventRes(o, x, "wait", 0, "CL_EXEC_STATUS_ERROR_FOR_EVENTS_IN_WAIT_LIST"))

\* OpenCL::GetLastElapsedTime; out names the event whose End - Start was stored
GetLastElapsedTime(o, x) ==
    LET End(o2, e) ==
            IF e # CL_SUCCESS THEN [o |-> o2, err |-> e, out |-> <<>>]
            ELSE [o |-> o2, err |-> CL_SUCCESS, out |-> <<o.mEvent>>]
        Start(o1, s) ==
            IF s # CL_SUCCESS THEN [o |-> o1, err |-> s, out |-> <<>>]
            ELSE End(Call(o1, "getProfilingInfo", o.mEvent,
                          EventRes(o, x, "getProfilingInfo", 1,
                                   "CL_PROFILING_INFO_NOT_AVAILABLE")),
                     EventRes(o, x, "getProfilingInfo", 1,
                              "CL_PROFILING_INFO_NOT_AVAILABLE"))
    IN  Start(Call(o, "getProfilingInfo", o.mEvent,
                   EventRes(o, x, "getProfilingInfo", 0,
                            "CL_PROFILING_INFO_NOT_AVAILABLE")),
              EventRes(o, x, "getProfilingInfo", 0, "CL_PROFILING_INFO_NOT_AVAILABLE"))

---------------------------------------------------------------------------
\* Buffers, devices, programs, kernels

\* OpenCL::AllocateBuffer
AllocateBuffer(o, x) ==
    LET Made(o1, Error) == [o |-> Call(o1, "Buffer", 0, Error), err |-> Error]
        Checked(a) ==
            IF a.err # CL_SUCCESS THEN a
            ELSE Made(a.o, Res(x, "Buffer", 0, "CL_MEM_OBJECT_ALLOCATION_FAILURE"))
        Then(c) ==
            IF c.err # CL_SUCCESS THEN c
            ELSE Checked(Asserts(c.o, <<"mDevices", "mContext">>))
    IN  Then(INIT_Context(o, x))

\* OpenCL::GetUsedDevice; out is UsedDevice
GetUsedDevice(o, x) ==
    LET Checked(a) ==
            IF a.err # CL_SUCCESS THEN [o |-> a.o, err |-> a.err, out |-> <<>>]
            ELSE [o |-> a.o, err |-> CL_SUCCESS,
                  out |-> <<At(a.o.mDevices.list, a.o.mDevice)>>]
        Then(d) ==
            IF d.err # CL_SUCCESS THEN [o |-> d.o, err |-> d.err, out |-> <<>>]
            ELSE Checked(Asserts(d.o, <<"mDevices">>))
    IN  Then(INIT_Devices(o, x))

\* OpenCL::GetProgramFromSource(Source, Length, Program)
GetProgramFromSourceBuildsAnyway(o, x) ==
    LET Build(o1, b) == [o |-> Call(o1, "build", o1.mBuildOptions, b), err |-> b]
        Made(o1, Error) == Build(o1, Res(x, "build", 0, "CL_BUILD_PROGRAM_FAILURE"))
        New(o1, Error) == Made(Call(o1, "Program", 0, Error), Error)
        Checked(a) ==
            IF a.err # CL_SUCCESS THEN a
            ELSE New(a.o, Res(x, "Program", 0, "CL_INVALID_VALUE"))
        Then(c) ==
            IF c.err # CL_SUCCESS THEN c
            ELSE Checked(Asserts(c.o, <<"mDevices", "mContext">>))
    IN  Then(INIT_Context(o, x))
GetProgramFromSource(o, x) ==
    LET Build(o1, b) == [o |-> Call(o1, "build", o1.mBuildOptions, b), err |-> b]
        Made(o1, Error) ==
            IF Error # CL_SUCCESS THEN [o |-> o1, err |-> Error]
            ELSE Build(o1, Res(x, "build", 0, "CL_BUILD_PROGRAM_FAILURE"))
        New(o1, Error) == Made(Call(o1, "Program", 0, Error), Error)
        Checked(a) ==
            IF a.err # CL_SUCCESS THEN a
            ELSE New(a.o, Res(x, "Program", 0, "CL_INVALID_VALUE"))
        Then(c) ==
            IF c.err # CL_SUCCESS THEN c
            ELSE Checked(Asserts(c.o, <<"mDevices", "mContext">>))
    IN  Then(INIT_Context(o, x))

\* OpenCL::GetProgramFromFile (both overloads read the file and pass its text on)
GetProgramFromFile(o, x) == GetProgramFromSource(o, x)

\* OpenCL::GetKernelFromProgram
GetKernelFromProgram(o, x) ==
    LET Made(Error) == [o |-> Call(o, "Kernel", 0, Error), err |-> Error]
    IN  Made(Res(x, "Kernel", 0, "CL_INVALID_KERNEL_NAME"))

\* OpenCL::GetKernelFromSource (both overloads)
GetKernelFromSource(o, x) ==
    LET Then(p) == IF p.err # CL_SUCCESS THEN p ELSE GetKernelFromProgram(p.o, x)
    IN  Then(GetProgramFromSource(o, x))

\* OpenCL::GetKernelFromFile (both overloads)
GetKernelFromFile(o, x) ==
    LET Then(p) == IF p.err # CL_SUCCESS THEN p ELSE GetKernelFromProgram(p.o, x)
    IN  Then(GetProgramFromFile(o, x))

\* OpenCL::ExecuteKernelFromFile (both overloads)
ExecuteKernelFromFile(o, x, DataSize, n) ==
    LET Then(k) ==
            IF k.err # CL_SUCCESS THEN k
            ELSE ExecuteKernelFromKernelEx(k.o, x, DataSize, 0, Pack(n))
    IN  Then(GetKernelFromFile(o, x))

\* OpenCL::ExecuteKernelFromSource (both overloads)
ExecuteKernelFromSourceNoCheck(o, x, DataSize, n) ==
    ExecuteKernelFromKernelEx(GetKernelFromSource(o, x).o, x, DataSize, 0, Pack(n))
ExecuteKernelFromSource(o, x, DataSize, n) ==
    LET Then(k) ==
            IF k.err # CL_SUCCESS THEN k
            ELSE ExecuteKernelFromKernelEx(k.o, x, DataSize, 0, Pack(n))
    IN  Then(GetKernelFromSource(o, x))

\* OpenCL::ExecuteKernelFromProgram
ExecuteKernelFromProgram(o, x, DataSize, n) ==
    LET Then(k) ==
            IF k.err # CL_SUCCESS THEN k
            ELSE ExecuteKernelFromKernelEx(k.o, x, DataSize, 0, Pack(n))
    IN  Then(GetKernelFromProgram(o, x))

\* OpenCL::ExecuteKernelFromKernel
ExecuteKernelFromKernelFromOne(o, x, DataSize, n) ==
    ExecuteKernelFromKernelEx(o, x, DataSize, 1, Pack(n))
ExecuteKernelFromKernel(o, x, DataSize, n) ==
    ExecuteKernelFromKernelEx(o, x, DataSize, 0, Pack(n))

---------------------------------------------------------------------------
\* Parameters

\* CL_DEVICE_TYPE_DEFAULT | CL_DEVICE_TYPE_CPU | CL_DEVICE_TYPE_GPU |
\* CL_DEVICE_TYPE_ACCELERATOR is 15: Value <= 15 iff no bit above bit 3 is set
LeqAllClasses(Value) ==
    Value \subseteq (CL_DEVICE_TYPE_DEFAULT \cup CL_DEVICE_TYPE_CPU
                     \cup CL_DEVICE_TYPE_GPU \cup CL_DEVICE_TYPE_ACCELERATOR)

\* OpenCL::SetParameter(OpenCLParameters, unsigned long)
SetParameterAnyTime(o, Parameter, Value) ==
    IF Parameter = "TargetDevice"
          /\ (Value = CL_DEVICE_TYPE_ALL \/ LeqAllClasses(Value))
    THEN [o |-> [o EXCEPT !.mTargetDevice = Value], err |-> CL_SUCCESS]
    ELSE [o |-> o, err |-> CL_INVALID_OPERATION]
SetParameter(o, Parameter, Value) ==
    IF Parameter = "TargetDevice" /\ o.mDevices.null
          /\ (Value = CL_DEVICE_TYPE_ALL \/ LeqAllClasses(Value))
    THEN [o |-> [o EXCEPT !.mTargetDevice = Value], err |-> CL_SUCCESS]
    ELSE [o |-> o, err |-> CL_INVALID_OPERATION]

\* OpenCL::SetParameter(OpenCLParameters, std::string &)
SetParameterString(o, Parameter, Value) ==
    IF Parameter = "BuildOptions"
    THEN [o |-> [o EXCEPT !.mBuildOptions = Value], err |-> CL_SUCCESS]
    ELSE [o |-> o, err |-> CL_INVALID_OPERATION]

---------------------------------------------------------------------------
\* Inputs

\* a device: its platform, its type, CL_DEVICE_AVAILABLE, CL_DEVICE_COMPILER_AVAILABLE
DeviceSet == [plat : 1..MaxPlatforms, type : DeviceTypes, avail : BOOLEAN, comp : BOOLEAN]

Dev(p, t, a, c) == [plat |-> p, type |-> t, avail |-> a, comp |-> c]

\* the place of a device class in the listing of a machine
TypeOrder(type) ==
    CASE type = "ACCELERATOR" -> 0 [] type = "GPU" -> 1 [] type = "CPU" -> 2

\* the machines with at most MaxDevices devices. Only the order of the devices of
\* one type on one platform is seen by getDevices, so a machine is listed by
\* platform, and by type on each platform
Machines ==
    UNION {{m \in [1..n -> DeviceSet] :
                \A i \in 1..(n - 1) :
                    \/ m[i].plat < m[i + 1].plat
                    \/ /\ m[i].plat = m[i + 1].plat
                       /\ TypeOrder(m[i].type) <= TypeOrder(m[i + 1].type)}
           : n \in 0..MaxDevices}

\* the machines of the specification of the whole object
SomeMachines ==
    {<<>>,
     <<Dev(1, "GPU", TRUE, FALSE), Dev(1, "GPU", TRUE, TRUE)>>,
     <<Dev(1, "ACCELERATOR", FALSE, TRUE), Dev(2, "CPU", TRUE, TRUE)>>}

\* the values given to SetParameter(TargetDevice, ...): CL_DEVICE_TYPE_ALL, 0,
\* the four class bits, masks of two and three of them, and two values that are
\* refused, CL_DEVICE_TYPE_CUSTOM (1 << 4) and 1 << 32
TargetValues ==
    {CL_DEVICE_TYPE_ALL, {}, CL_DEVICE_TYPE_DEFAULT, CL_DEVICE_TYPE_CPU,
     CL_DEVICE_TYPE_GPU, CL_DEVICE_TYPE_ACCELERATOR,
     CL_DEVICE_TYPE_DEFAULT \cup CL_DEVICE_TYPE_CPU,
     CL_DEVICE_TYPE_CPU \cup CL_DEVICE_TYPE_GPU,
     CL_DEVICE_TYPE_GPU \cup CL_DEVICE_TYPE_ACCELERATOR,
     CL_DEVICE_TYPE_CPU \cup CL_DEVICE_TYPE_GPU \cup CL_DEVICE_TYPE_ACCELERATOR,
     {4}, {32}}
SomeTargetValues == {CL_DEVICE_TYPE_ALL, CL_DEVICE_TYPE_CPU, CL_DEVICE_TYPE_GPU, {4}}

BuildOptionValues == {"", "-cl-fast-relaxed-math"}
DataSizes == {1024}

\* the library calls an operation may make, which the inputs may let fail; the
\* calls of an initialisation are made only while its member is still 0
DevicesCalls == IF mDevices.null THEN {<<"new Devices", 0>>} ELSE {}
ContextCalls ==
    IF mContext = 0
    THEN DevicesCalls \cup {<<"new Context", 0>>, <<"Context", 0>>}
    ELSE {}
QueueCalls ==
    IF mQueue = 0
    THEN ContextCalls \cup {<<"new Queue", 0>>, <<"CommandQueue", 0>>}
    ELSE {}
ProgramCalls == ContextCalls \cup {<<"Program", 0>>, <<"build", 0>>}
KernelCalls == {<<"Kernel", 0>>}
ArgCalls(n) == {<<"setArg", p>> : p \in 0..(n - 1)}
NDRangeCalls == QueueCalls \cup {<<"enqueueNDRangeKernel", 0>>}

\* every call of C but setArg ends the operation when it fails, so at most one of
\* them fails in one operation; one of the n setArg calls may fail beside it
Outcomes(C, n) ==
    {[fails |-> A \cup B] : A \in {{}} \cup {{c} : c \in ArgCalls(n)},
                            B \in {{}} \cup {{c} : c \in C}}

\* main() before its first statement
DriverIdle == [pc |-> "none"]

---------------------------------------------------------------------------
\* The operations as actions

\* the object, the trace and the results after an operation that ended as r; no
\* operation is called in a program that has aborted
Finish(name, a, r, o_) ==
    /\ ret # SIGABRT
    /\ mEvent' = r.o.mEvent
    /\ mDevice' = r.o.mDevice
    /\ mContext' = r.o.mContext
    /\ mBuildOptions' = r.o.mBuildOptions
    /\ mQueue' = r.o.mQueue
    /\ mTargetDevice' = r.o.mTargetDevice
    /\ mDevices' = r.o.mDevices
    /\ created' = r.o.created
    /\ issued' = r.o.issued
    /\ calls' = r.o.calls
    /\ op' = name
    /\ arg' = a
    /\ ret' = r.err
    /\ out' = o_
    /\ UNCHANGED Devs

DoSetParameter ==
    \E Parameter \in OpenCLParameters, Value \in SomeTargetValues :
        /\ Finish("SetParameter", <<Parameter, Value>>,
                  SetParameter(Obj, Parameter, Value), <<>>)
        /\ UNCHANGED drv

DoSetParameterAll ==
    \E Value \in TargetValues :
        /\ Finish("SetParameter", <<"TargetDevice", Value>>,
                  SetParameter(Obj, "TargetDevice", Value), <<>>)
        /\ UNCHANGED drv

DoSetParameterString ==
    \E Parameter \in OpenCLParameters, Value \in BuildOptionValues :
        /\ Finish("SetParameterString", <<Parameter, Value>>,
                  SetParameterString(Obj, Parameter, Value), <<>>)
        /\ UNCHANGED drv

DoGetUsedDevice ==
    \E x \in Outcomes(DevicesCalls, 0) :
        LET Then(r) == Finish("GetUsedDevice", <<>>, r, r.out)
        IN  Then(GetUsedDevice(Obj, x)) /\ UNCHANGED drv

DoAllocateBuffer ==
    \E x \in Outcomes(ContextCalls \cup {<<"Buffer", 0>>}, 0) :
        Finish("AllocateBuffer", <<>>, AllocateBuffer(Obj, x), <<>>) /\ UNCHANGED drv

DoGetProgramFromSource ==
    \E x \in Outcomes(ProgramCalls, 0) :
        Finish("GetProgramFromSource", <<>>, GetProgramFromSource(Obj, x), <<>>)
        /\ UNCHANGED drv

DoGetProgramFromFile ==
    \E x \in Outcomes(ProgramCalls, 0) :
        Finish("GetProgramFromFile", <<>>, GetProgramFromFile(Obj, x), <<>>)
        /\ UNCHANGED drv

DoGetKernelFromProgram ==
    \E x \in Outcomes(KernelCalls, 0) :
        Finish("GetKernelFromProgram", <<>>, GetKernelFromProgram(Obj, x), <<>>)
        /\ UNCHANGED drv

DoGetKernelFromSource ==
    \E x \in Outcomes(ProgramCalls \cup KernelCalls, 0) :
        Finish("GetKernelFromSource", <<>>, GetKernelFromSource(Obj, x), <<>>)
        /\ UNCHANGED drv

DoGetKernelFromFile ==
    \E x \in Outcomes(ProgramCalls \cup KernelCalls, 0) :
        Finish("GetKernelFromFile", <<>>, GetKernelFromFile(Obj, x), <<>>)
        /\ UNCHANGED drv

DoExecuteKernelFromFile ==
    /\ issued < MaxEvents
    /\ \E DataSize \in DataSizes, n \in 0..MaxArgs :
        \E x \in Outcomes(ProgramCalls \cup KernelCalls \cup NDRangeCalls, n) :
            Finish("ExecuteKernelFromFile", [DataSize |-> DataSize, n |-> n],
                   ExecuteKernelFromFile(Obj, x, DataSize, n), <<>>)
    /\ UNCHANGED drv

DoExecuteKernelFromSource ==
    /\ issued < MaxEvents
    /\ \E DataSize \in DataSizes, n \in 0..MaxArgs :
        \E x \in Outcomes(ProgramCalls \cup KernelCalls \cup NDRangeCalls, n) :
            Finish("ExecuteKernelFromSource", [DataSize |-> DataSize, n |-> n],
                   ExecuteKernelFromSource(Obj, x, DataSize, n), <<>>)
    /\ UNCHANGED drv

DoExecuteKernelFromProgram ==
    /\ issued < MaxEvents
    /\ \E DataSize \in DataSizes, n \in 0..MaxArgs :
        \E x \in Outcomes(KernelCalls \cup NDRangeCalls, n) :
            Finish("ExecuteKernelFromProgram", [DataSize |-> DataSize, n |-> n],
                   ExecuteKernelFromProgram(Obj, x, DataSize, n), <<>>)
    /\ UNCHANGED drv

DoExecuteKernelFromKernel ==
    /\ issued < MaxEvents
    /\ \E DataSize \in DataSizes, n \in 0..MaxArgs :
        \E x \in Outcomes(NDRangeCalls, n) :
            Finish("ExecuteKernelFromKernel", [DataSize |-> DataSize, n |-> n],
                   ExecuteKernelFromKernel(Obj, x, DataSize, n), <<>>)
    /\ UNCHANGED drv

DoReadBuffer ==
    /\ issued < MaxEvents
    /\ \E x \in Outcomes(QueueCalls \cup {<<"enqueueReadBuffer", 0>>}, 0) :
        Finish("ReadBuffer", <<>>, ReadBuffer(Obj, x), <<>>)
    /\ UNCHANGED drv

DoWriteBuffer ==
    /\ issued < MaxEvents
    /\ \E x \in Outcomes(QueueCalls \cup {<<"enqueueWriteBuffer", 0>>}, 0) :
        Finish("WriteBuffer", <<>>, WriteBuffer(Obj, x), <<>>)
    /\ UNCHANGED drv

DoWaitForLastEvent ==
    \E x \in Outcomes({<<"wait", 0>>}, 0) :
        Finish("WaitForLastEvent", <<>>, WaitForLastEvent(Obj, x), <<>>)
        /\ UNCHANGED drv

DoGetLastElapsedTime ==
    \E x \in Outcomes({<<"getProfilingInfo", 0>>, <<"getProfilingInfo", 1>>}, 0) :
        LET Then(r) == Finish("GetLastElapsedTime", <<>>, r, r.out)
        IN  Then(GetLastElapsedTime(Obj, x)) /\ UNCHANGED drv

\* GetGridSize applied to the Size drawn at the start
DoGetGridSize ==
    /\ op = "Size"
    /\ op' = "GetGridSize"
    /\ out' = GetGridSize(arg)
    /\ UNCHANGED <<Devs, mEvent, mDevice, mContext, mBuildOptions, mQueue,
                   mTargetDevice, mDevices, created, issued, calls, arg, ret, drv>>

---------------------------------------------------------------------------
\* The driver, main()

\* what xmlXPathEval("string(...)") gives: "NULL" when it returns no object, else
\* the string value ("" for a missing or empty attribute)
FileValues == {"NULL", "", "kernel.cl"}
NameValues == {"NULL", "", "vadd"}
TypeValues == {"NULL", "", "cpu", "gpu", "accelerator", "GPU", "fpga"}

\* (XmlObject != 0) && (type == XPATH_STRING) && (stringval != NULL) &&
\* (stringval[0] != 0)
HasString(v) == v # "NULL" /\ v # ""

\* main() entered: the command line, the configuration file as the libxml2 and
\* stat calls will report it, the build (NDEBUG removes assert), and the locals
DriverStart(argc, xml, xpath, file, exists, name, type, ndebug) ==
    [pc |-> "argc", argc |-> argc, xml |-> xml, xpath |-> xpath, file |-> file,
     exists |-> exists, name |-> name, type |-> type, NDEBUG |-> ndebug,
     Kernel |-> [Name |-> "", File |-> "", Target |-> CL_DEVICE_TYPE_ALL],
     status |-> 0]

\* return code;
Return(d, code) == [d EXCEPT !.pc = "returned", !.status = code]

\* if (argc != 2) return PrintUsage(argv[0]);
main_argc(d) == IF d.argc # 2 THEN Return(d, 0) ELSE [d EXCEPT !.pc = "xmlReadFile"]

\* XmlFile = xmlReadFile(ConfigFile, 0, 0); if (XmlFile == 0) return -1;
main_xmlReadFile(d) ==
    IF ~d.xml THEN Return(d, -1) ELSE [d EXCEPT !.pc = "xmlXPathNewContext"]

\* XmlContext = xmlXPathNewContext(XmlFile); if (XmlContext == 0) return -2;
main_xmlXPathNewContextMinus1(d) ==
    IF ~d.xpath THEN Return(d, -1) ELSE [d EXCEPT !.pc = "file"]
main_xmlXPathNewContext(d) ==
    IF ~d.xpath THEN Return(d, -2) ELSE [d EXCEPT !.pc = "file"]

\* string(/kernel/@file) into Kernel.File; if (Kernel.File == "") return -3;
main_file(d) ==
    LET d1 == IF HasString(d.file) THEN [d EXCEPT !.Kernel.File = d.file] ELSE d
    IN  IF d1.Kernel.File = "" THEN Return(d1, -3) ELSE [d1 EXCEPT !.pc = "stat"]

\* if (stat(Kernel.File.c_str(), &stbuf) != 0) return -3;
main_statIgnored(d) == [d EXCEPT !.pc = "name"]
main_stat(d) == IF ~d.exists THEN Return(d, -3) ELSE [d EXCEPT !.pc = "name"]

\* string(/kernel/@name) into Kernel.Name; if (Kernel.Name == "") return -3;
main_name(d) ==
    LET d1 == IF HasString(d.name) THEN [d EXCEPT !.Kernel.Name = d.name] ELSE d
    IN  IF d1.Kernel.Name = "" THEN Return(d1, -3) ELSE [d1 EXCEPT !.pc = "target"]

\* string(/kernel/target/@type) into Kernel.Target
main_targetAnyCase(d) ==
    LET t == IF ~HasString(d.type) THEN d.Kernel.Target
             ELSE IF d.type = "cpu" THEN CL_DEVICE_TYPE_CPU
             ELSE IF d.type \in {"gpu", "GPU"} THEN CL_DEVICE_TYPE_GPU
             ELSE IF d.type = "accelerator" THEN CL_DEVICE_TYPE_ACCELERATOR
             ELSE d.Kernel.Target
    IN  [d EXCEPT !.Kernel.Target = t, !.pc = "SetParameter"]
main_target(d) ==
    LET t == IF ~HasString(d.type) THEN d.Kernel.Target
             ELSE IF d.type = "cpu" THEN CL_DEVICE_TYPE_CPU
             ELSE IF d.type = "gpu" THEN CL_DEVICE_TYPE_GPU
             ELSE IF d.type = "accelerator" THEN CL_DEVICE_TYPE_ACCELERATOR
             ELSE d.Kernel.Target
    IN  [d EXCEPT !.Kernel.Target = t, !.pc = "SetParameter"]

\* assert(false); return 0;
main_unimplemented(d) ==
    IF d.NDEBUG THEN Return(d, 0) ELSE [d EXCEPT !.pc = "aborted"]

ObjectUnchanged ==
    UNCHANGED <<Devs, mEvent, mDevice, mContext, mBuildOptions, mQueue,
                mTargetDevice, mDevices, created, issued, calls, op, arg, ret, out>>

MainArgc == drv.pc = "argc" /\ drv' = main_argc(drv) /\ ObjectUnchanged

MainXmlReadFile ==
    drv.pc = "xmlReadFile" /\ drv' = main_xmlReadFile(drv) /\ ObjectUnchanged

MainXmlXPathNewContext ==
    /\ drv.pc = "xmlXPathNewContext"
    /\ drv' = main_xmlXPathNewContext(drv)
    /\ ObjectUnchanged

MainFile == drv.pc = "file" /\ drv' = main_file(drv) /\ ObjectUnchanged

MainStat == drv.pc = "stat" /\ drv' = main_stat(drv) /\ ObjectUnchanged

MainName == drv.pc = "name" /\ drv' = main_name(drv) /\ ObjectUnchanged

MainTarget == drv.pc = "target" /\ drv' = main_target(drv) /\ ObjectUnchanged

\* OclObject.SetParameter(OpenCLWrapper::TargetDevice, Kernel.Target);
MainSetParameter ==
    /\ drv.pc = "SetParameter"
    /\ Finish("SetParameter", <<"TargetDevice", drv.Kernel.Target>>,
              SetParameter(Obj, "TargetDevice", drv.Kernel.Target), <<>>)
    /\ drv' = [drv EXCEPT !.pc = "assert"]

MainUnimplemented ==
    drv.pc = "assert" /\ drv' = main_unimplemented(drv) /\ ObjectUnchanged

---------------------------------------------------------------------------
\* Specifications

\* the object after OpenCL::OpenCL()
InitObject ==
    /\ mEvent = Constructed.mEvent
    /\ mDevice = Constructed.mDevice
    /\ mContext = Constructed.mContext
    /\ mBuildOptions = Constructed.mBuildOptions
    /\ mQueue = Constructed.mQueue
    /\ mTargetDevice = Constructed.mTargetDevice
    /\ mDevices = Constructed.mDevices
    /\ created = Constructed.created
    /\ issued = Constructed.issued
    /\ calls = Constructed.calls
    /\ ret = CL_SUCCESS
    /\ out = <<>>

\* the whole object on a few machines
Init ==
    /\ InitObject
    /\ Devs \in SomeMachines
    /\ op = "OpenCL"
    /\ arg = <<>>
    /\ drv = DriverIdle

Next ==
    \/ DoSetParameter
    \/ DoSetParameterString
    \/ DoGetUsedDevice
    \/ DoAllocateBuffer
    \/ DoGetProgramFromSource
    \/ DoGetProgramFromFile
    \/ DoGetKernelFromProgram
    \/ DoGetKernelFromSource
    \/ DoGetKernelFromFile
    \/ DoExecuteKernelFromFile
    \/ DoExecuteKernelFromSource
    \/ DoExecuteKernelFromProgram
    \/ DoExecuteKernelFromKernel
    \/ DoReadBuffer
    \/ DoWriteBuffer
    \/ DoWaitForLastEvent
    \/ DoGetLastElapsedTime

Spec == Init /\ [][Next]_vars

\* device selection on every machine, with every target value
InitSelect ==
    /\ InitObject
    /\ Devs \in Machines
    /\ op = "OpenCL"
    /\ arg = <<>>
    /\ drv = DriverIdle

NextSelect ==
    \/ DoSetParameterAll
    \/ DoGetUsedDevice

SpecSelect == InitSelect /\ [][NextSelect]_vars

\* GetGridSize on every Size of the range
InitGrid ==
    /\ InitObject
    /\ Devs = <<>>
    /\ op = "Size"
    /\ arg \in (-NegSizes)..MaxSize
    /\ drv = DriverIdle

NextGrid == DoGetGridSize

SpecGrid == InitGrid /\ [][NextGrid]_vars

\* the driver on every command line and configuration
InitMain ==
    /\ InitObject
    /\ Devs = <<>>
    /\ op = "OpenCL"
    /\ arg = <<>>
    /\ \E argc \in 1..3, xml \in BOOLEAN, xpath \in BOOLEAN, file \in FileValues,
          exists \in BOOLEAN, name \in NameValues, type \in TypeValues,
          ndebug \in BOOLEAN :
            drv = DriverStart(argc, xml, xpath, file, exists, name, type, ndebug)

NextMain ==
    \/ MainArgc
    \/ MainXmlReadFile
    \/ MainXmlXPathNewContext
    \/ MainFile
    \/ MainStat
    \/ MainName
    \/ MainTarget
    \/ MainSetParameter
    \/ MainUnimplemented

SpecMain == InitMain /\ [][NextMain]_vars

---------------------------------------------------------------------------
\* Properties

\* the value of a size_t that fits a positive int, -1 for the others
SizeTValue(z) ==
    IF z[3] = 0 /\ z[4] = 0 /\ z[2] < 2 ^ 15 THEN z[1] + z[2] * (2 ^ 16) ELSE -1

\* the rank of a device class in the search order accelerator, GPU, CPU
ClassRank(type) ==
    CASE type = "ACCELERATOR" -> 0 [] type = "GPU" -> 1 [] type = "CPU" -> 2

\* the devices that are available and have a compiler
AvailableWithCompiler == {h \in 1..Len(Devs) : Devs[h].avail /\ Devs[h].comp}

\* device h is met before device k when the accelerators of all platforms are
\* scanned in platform order, then the GPUs, then the CPUs
MetBefore(h, k) ==
    \/ ClassRank(Devs[h].type) < ClassRank(Devs[k].type)
    \/ /\ Devs[h].type = Devs[k].type
       /\ \/ Devs[h].plat < Devs[k].plat
          \/ Devs[h].plat = Devs[k].plat /\ h < k

\* the target permits every device class
PermitsEveryClass(target) ==
    target = CL_DEVICE_TYPE_ALL \/ CL_DEVICE_TYPE_DEFAULT \subseteq target

\* C1: with a target that permits every device class (CL_DEVICE_TYPE_ALL, or a
\* mask with the DEFAULT bit), the selected device is the first available and
\* compiler-capable device met when the accelerators of all platforms are scanned
\* in platform order, then the GPUs, then the CPUs; a GPU is selected only when
\* there is no usable accelerator, a CPU only when there is no usable accelerator
\* or GPU; and the search answers CL_DEVICE_NOT_FOUND only when no device is usable.
C1_SelectionOrder ==
    PermitsEveryClass(mTargetDevice) =>
        /\ ~mDevices.null =>
            /\ mDevice < Len(mDevices.list)
            /\ LET sel == mDevices.list[mDevice + 1]
               IN  /\ sel \in AvailableWithCompiler
                   /\ \A k \in AvailableWithCompiler : k = sel \/ MetBefore(sel, k)
                   /\ Devs[sel].type = "GPU" =>
                        \A k \in AvailableWithCompiler : Devs[k].type # "ACCELERATOR"
                   /\ Devs[sel].type = "CPU" =>
                        \A k \in AvailableWithCompiler : Devs[k].type = "CPU"
        /\ (op = "GetUsedDevice" /\ ret = CL_DEVICE_NOT_FOUND) =>
            AvailableWithCompiler = {}
        /\ (op = "GetUsedDevice" /\ ret = CL_SUCCESS) => ~mDevices.null

\* a GPU of the second platform is selected although the first platform has a
\* usable CPU
C1_Witness ==
    /\ op = "GetUsedDevice" /\ ret = CL_SUCCESS
    /\ PermitsEveryClass(mTargetDevice)
    /\ ~mDevices.null
    /\ Devs[mDevices.list[mDevice + 1]].type = "GPU"
    /\ Devs[mDevices.list[mDevice + 1]].plat = 2
    /\ \E k \in AvailableWithCompiler : Devs[k].type = "CPU" /\ Devs[k].plat = 1

\* the divisors of n among 1..MaxThreads
SmallDivisors(n) == {d \in 1..MaxThreads : n % d = 0}

\* C2: for every Size >= 1 the first component of LocalSize is the largest
\* divisor d of Size with 1 <= d <= 512, which is Size itself when Size <= 512,
\* and it divides the global size.
C2_LocalSizeLargestDivisor ==
    (op = "GetGridSize" /\ arg >= 1) =>
        /\ Len(out.LocalSize) >= 1
        /\ LET l == SizeTValue(out.LocalSize[1])
           IN  /\ l \in SmallDivisors(arg)
               /\ \A d \in SmallDivisors(arg) : d <= l
               /\ arg <= MaxThreads => l = arg
               /\ SizeTValue(out.GlobalSize[1]) % l = 0

\* a Size above 512 whose largest small divisor is neither 512 nor 1
C2_Witness ==
    /\ op = "GetGridSize" /\ arg = 1000
    /\ SizeTValue(out.LocalSize[1]) = 500

\* the operations that return CL_SUCCESS only with a device list, a context, a queue
NeedQueue ==
    {"ReadBuffer", "WriteBuffer", "ExecuteKernelFromFile", "ExecuteKernelFromSource",
     "ExecuteKernelFromProgram", "ExecuteKernelFromKernel"}
NeedContext ==
    NeedQueue \cup {"AllocateBuffer", "GetProgramFromSource", "GetProgramFromFile",
                    "GetKernelFromSource", "GetKernelFromFile"}
NeedDevices == NeedContext \cup {"GetUsedDevice"}

\* C3: the constructed object has no device list, context or queue, and
\* SetParameter creates none; an operation that needs one and succeeds leaves it
\* created; one that exists is never replaced, and each is created at most once.
C3_LazyOnce ==
    /\ mDevices.null /\ mContext = 0 /\ mQueue = 0
    /\ created = [Devices |-> 0, Context |-> 0, Queue |-> 0]
    /\ [][/\ op' \in {"SetParameter", "SetParameterString"} =>
                UNCHANGED <<mDevices, mDevice, mContext, mQueue, created>>
          /\ (op' \in NeedDevices /\ ret' = CL_SUCCESS) => ~mDevices'.null
          /\ (op' \in NeedContext /\ ret' = CL_SUCCESS) => mContext' # 0
          /\ (op' \in NeedQueue /\ ret' = CL_SUCCESS) => mQueue' # 0
          /\ ~mDevices.null => mDevices' = mDevices /\ mDevice' = mDevice
          /\ mContext # 0 => mContext' = mContext
          /\ mQueue # 0 => mQueue' = mQueue
          /\ created'.Devices = (IF mDevices'.null THEN 0 ELSE 1)
          /\ created'.Context = (IF mContext' = 0 THEN 0 ELSE 1)
          /\ created'.Queue = (IF mQueue' = 0 THEN 0 ELSE 1)]_vars

\* two operations were enqueued, and each of the three was created once
C3_Witness ==
    /\ issued = 2
    /\ created = [Devices |-> 1, Context |-> 1, Queue |-> 1]
    /\ op \in NeedQueue /\ ret = CL_SUCCESS

\* the values SetParameter(TargetDevice, v) accepts
AcceptedTarget(v) == v = CL_DEVICE_TYPE_ALL \/ \A b \in v : b <= 3

\* C4: once a device list exists, SetParameter(TargetDevice, v) returns
\* CL_INVALID_OPERATION and leaves the stored target unchanged; before that an
\* accepted v is stored and CL_SUCCESS is returned.
C4_TargetOnlyBeforeSelection ==
    [][(op' = "SetParameter" /\ arg'[1] = "TargetDevice") =>
          IF ~mDevices.null
          THEN ret' = CL_INVALID_OPERATION /\ mTargetDevice' = mTargetDevice
          ELSE AcceptedTarget(arg'[2]) =>
                  ret' = CL_SUCCESS /\ mTargetDevice' = arg'[2]]_vars

\* an accepted value is refused because a device was selected
C4_Witness ==
    /\ op = "SetParameter" /\ arg = <<"TargetDevice", CL_DEVICE_TYPE_CPU>>
    /\ ~mDevices.null
    /\ ret = CL_INVALID_OPERATION
    /\ mTargetDevice = CL_DEVICE_TYPE_ALL

\* C5: the tracked event is the one of the most recently enqueued successful
\* kernel execution, ReadBuffer or WriteBuffer (the last event the library
\* created), and WaitForLastEvent and GetLastElapsedTime query that event only.
C5_LastEvent ==
    /\ mEvent = issued
    /\ op \in {"WaitForLastEvent", "GetLastElapsedTime"} =>
        /\ Len(calls) >= 1
        /\ \A i \in 1..Len(calls) : calls[i].arg = issued
    /\ (op = "GetLastElapsedTime" /\ ret = CL_SUCCESS) => out = <<issued>>

\* the second of two events is waited for
C5_Witness ==
    /\ op = "WaitForLastEvent" /\ ret = CL_SUCCESS
    /\ issued = 2 /\ mEvent = 2

\* the library calls whose status the wrapper drops
Discarded == {"Platform::get", "getDevices", "setArg"}

\* C6 as stated: every non-success status of a library call made during an
\* operation is the return value of the operation.
C6_Original ==
    \A i \in 1..Len(calls) : calls[i].err # CL_SUCCESS => ret = calls[i].err

\* C6 as amended: every non-success status of context creation, queue creation,
\* buffer creation, program creation, program build, kernel creation, an enqueue,
\* an event wait or a profiling query is the return value of the operation; the
\* statuses of platform and device enumeration and of kernel argument binding
\* are not.
C6_PassThrough ==
    \A i \in 1..Len(calls) :
        (calls[i].api \notin Discarded /\ calls[i].err # CL_SUCCESS) =>
            ret = calls[i].err

\* an argument binding failed, and the enqueue's own failure was returned
C6_Witness ==
    /\ op = "ExecuteKernelFromSource"
    /\ ret = "CL_INVALID_WORK_GROUP_SIZE"
    /\ \E i \in 1..Len(calls) :
        calls[i].api = "setArg" /\ calls[i].err = "CL_INVALID_ARG_INDEX"

\* the command line and configuration with which main() gets past its checks
Runnable(d) ==
    /\ d.argc = 2 /\ d.xml /\ d.xpath
    /\ d.file \notin {"NULL", ""} /\ d.exists
    /\ d.name \notin {"NULL", ""}

\* C7 as stated: main() ends at the assert(false) abort and at no other exit.
C7_Original == drv.pc # "returned"

\* C7 as amended: main() reaches assert(false) exactly when it is given one
\* argument, a readable configuration with an XPath context, a non-empty
\* /kernel/@file naming an existing file and a non-empty /kernel/@name, and ends
\* there (aborting, or returning 0 when NDEBUG removes the assertion); on every
\* other input it ends by returning 0 (usage), -1, -2 or -3.
C7_AbortOnlyWhenRunnable ==
    /\ drv.pc \in {"SetParameter", "assert", "aborted"} => Runnable(drv)
    /\ drv.pc = "aborted" => ~drv.NDEBUG
    /\ drv.pc = "returned" =>
        IF Runnable(drv)
        THEN drv.NDEBUG /\ drv.status = 0 /\ op = "SetParameter"
        ELSE /\ drv.status \in {0, -1, -2, -3}
             /\ drv.status = 0 <=> drv.argc # 2
    /\ drv.pc \notin {"returned", "aborted"} => ENABLED NextMain

\* main() aborted at assert(false)
C7_Witness == drv.pc = "aborted" /\ drv.type = "gpu"

\* C8: with one argument, main() returns -1 when the configuration is not
\* readable XML, -2 when no XPath context can be made, -3 when /kernel/@file is
\* missing or empty, the file does not exist, or /kernel/@name is missing or
\* empty, checked in that order (the kernel name is not read before the file
\* exists); on each of these exits the object is as constructed.
C8_StatusCodes ==
    (drv.pc = "returned" /\ drv.argc = 2 /\ ~Runnable(drv)) =>
        /\ drv.status =
             (IF ~drv.xml THEN -1 ELSE IF ~drv.xpath THEN -2 ELSE -3)
        /\ drv.status = -3 =>
            /\ drv.Kernel.File = (IF drv.file \in {"NULL", ""} THEN "" ELSE drv.file)
            /\ drv.Kernel.Name =
                 (IF drv.file \in {"NULL", ""} \/ ~drv.exists \/ drv.name = "NULL"
                  THEN "" ELSE drv.name)
        /\ drv.status \in {-1, -2} => drv.Kernel.File = "" /\ drv.Kernel.Name = ""
        /\ op = "OpenCL" /\ calls = <<>>
        /\ Obj = Constructed

\* -3 for a kernel file that does not exist, the given kernel name not yet read
C8_Witness ==
    /\ drv.pc = "returned" /\ drv.status = -3
    /\ drv.file = "kernel.cl" /\ ~drv.exists /\ drv.name = "vadd"
    /\ drv.Kernel.Name = ""

\* C9 as stated: for every Size, GlobalSize is one-dimensional with exactly Size
\* work-items, and for 1 <= Size <= 512 LocalSize is one-dimensional and Size.
C9_Original ==
    op = "GetGridSize" =>
        /\ Len(out.GlobalSize) = 1
        /\ SizeTValue(out.GlobalSize[1]) = arg
        /\ (1 <= arg /\ arg <= MaxThreads) =>
            Len(out.LocalSize) = 1 /\ SizeTValue(out.LocalSize[1]) = arg

\* C9 as amended: for every Size >= 0, GlobalSize is one-dimensional with exactly
\* Size work-items (a negative Size wraps around to 2^64 + Size), and for
\* 1 <= Size <= 512 LocalSize is one-dimensional and Size.
C9_OneDimensional ==
    op = "GetGridSize" =>
        /\ Len(out.GlobalSize) = 1
        /\ arg >= 0 => SizeTValue(out.GlobalSize[1]) = arg
        /\ arg < 0 => out.GlobalSize[1] = <<(2 ^ 16) + arg, 65535, 65535, 65535>>
        /\ (1 <= arg /\ arg <= MaxThreads) =>
            Len(out.LocalSize) = 1 /\ SizeTValue(out.LocalSize[1]) = arg

\* the largest Size that makes one work-group
C9_Witness ==
    /\ op = "GetGridSize" /\ arg = MaxThreads
    /\ out.LocalSize = out.GlobalSize

\* C10: while the device list exists, the selected index is within the list and
\* the device there is available and compiler-capable; GetUsedDevice returns
\* that device with CL_SUCCESS.
C10_SelectedDevice ==
    ~mDevices.null =>
        /\ mDevice >= 0 /\ mDevice < Len(mDevices.list)
        /\ Devs[mDevices.list[mDevice + 1]].avail
        /\ Devs[mDevices.list[mDevice + 1]].comp
        /\ op = "GetUsedDevice" =>
            ret = CL_SUCCESS /\ out = <<mDevices.list[mDevice + 1]>>

\* the second device of the list is the selected one, and a context was made on it
C10_Witness ==
    /\ op = "GetUsedDevice" /\ ret = CL_SUCCESS
    /\ mDevice = 1 /\ mContext # 0
    /\ out = <<mDevices.list[2]>>

\* C11: in every state between operations a command queue exists only if a
\* context exists, and a context only if a device list exists; every
\* assert(mDevices != 0), assert(mContext != 0), assert(mQueue != 0) evaluated by
\* an operation held, and no operation ended in abort(), whatever initialisations
\* failed before.
C11_InitOrderAndAsserts ==
    /\ mQueue # 0 => mContext # 0
    /\ mContext # 0 => ~mDevices.null
    /\ ret # SIGABRT
    /\ \A i \in 1..Len(calls) : calls[i].api = "assert" => calls[i].err = CL_SUCCESS

\* the queue creation failed in an operation that had created the context: the
\* assertions of InitializeContext and InitializeQueue were evaluated, and the
\* context is left without a queue
C11_Witness ==
    /\ op = "WriteBuffer" /\ ret = "CL_INVALID_QUEUE_PROPERTIES"
    /\ mContext # 0 /\ mQueue = 0 /\ ~mDevices.null
    /\ \E i, j \in 1..Len(calls) :
        /\ i < j
        /\ calls[i].api = "Context"
        /\ calls[j].api = "assert" /\ calls[j].arg = "mContext"

\* how many times a library call was made in a trace
NumCalls(tr, api) == Cardinality({i \in 1..Len(tr) : tr[i].api = api})

\* the operations whose first statement is INIT(Context), INIT(Queue) (the
\* discarded setArg calls aside), INIT of any member
ContextFirst ==
    {"AllocateBuffer", "GetProgramFromSource", "GetProgramFromFile",
     "GetKernelFromSource", "GetKernelFromFile", "ExecuteKernelFromFile",
     "ExecuteKernelFromSource"}
QueueFirst == {"ReadBuffer", "WriteBuffer", "ExecuteKernelFromKernel"}
InitFirst == ContextFirst \cup QueueFirst \cup {"GetUsedDevice"}

\* C12: a device search that finds nothing leaves no device list (nor context nor
\* queue), a failed context creation leaves no context but keeps the device list,
\* a failed queue creation leaves no queue but keeps the device list and the
\* context; members created earlier stay as they are; the next operation that
\* needs the missing member makes again the failed step only (one device search,
\* one context creation, one queue creation, and none for a member that exists);
\* and SetParameter(TargetDevice, v) with an accepted v right after a failed
\* device search returns CL_SUCCESS and stores v.
C12_ResetAndRetry ==
    [][/\ ret' = CL_DEVICE_NOT_FOUND =>
            mDevices.null /\ mDevices'.null /\ mContext' = 0 /\ mQueue' = 0
       /\ ret' = "CL_DEVICE_NOT_AVAILABLE" =>
            mContext = 0 /\ mContext' = 0 /\ ~mDevices'.null /\ mQueue' = 0
       /\ ret' = "CL_INVALID_QUEUE_PROPERTIES" =>
            mQueue = 0 /\ mQueue' = 0 /\ mContext' # 0 /\ ~mDevices'.null
       /\ ~mDevices.null =>
            /\ mDevices' = mDevices /\ mDevice' = mDevice
            /\ NumCalls(calls', "Platform::get") = 0
            /\ NumCalls(calls', "getDevices") = 0
       /\ mContext # 0 => mContext' = mContext /\ NumCalls(calls', "Context") = 0
       /\ mQueue # 0 => mQueue' = mQueue /\ NumCalls(calls', "CommandQueue") = 0
       /\ (op' \in InitFirst /\ mDevices.null) =>
            ret' = CL_OUT_OF_HOST_MEMORY \/ NumCalls(calls', "Platform::get") = 1
       /\ (op' \in ContextFirst \cup QueueFirst /\ mContext = 0 /\ ~mDevices.null) =>
            ret' = CL_OUT_OF_HOST_MEMORY \/ NumCalls(calls', "Context") = 1
       /\ (op' \in QueueFirst /\ mQueue = 0 /\ mContext # 0) =>
            ret' = CL_OUT_OF_HOST_MEMORY \/ NumCalls(calls', "CommandQueue") = 1
       /\ (ret = CL_DEVICE_NOT_FOUND /\ op' = "SetParameter"
              /\ arg'[1] = "TargetDevice" /\ AcceptedTarget(arg'[2])) =>
            ret' = CL_SUCCESS /\ mTargetDevice' = arg'[2]]_vars

\* a queue creation failed in an operation that found the context already made:
\* only the queue creation was attempted, and the context stayed
C12_Witness ==
    /\ op = "ReadBuffer" /\ ret = "CL_INVALID_QUEUE_PROPERTIES"
    /\ mQueue = 0 /\ mContext # 0 /\ ~mDevices.null
    /\ NumCalls(calls, "Context") = 0 /\ NumCalls(calls, "getDevices") = 0
    /\ NumCalls(calls, "CommandQueue") = 1

\* a non-empty combination of the CPU, GPU and ACCELERATOR bits only
OnlyClasses(target) ==
    /\ target # {}
    /\ target \subseteq (CL_DEVICE_TYPE_CPU \cup CL_DEVICE_TYPE_GPU
                         \cup CL_DEVICE_TYPE_ACCELERATOR)

\* the available, compiler-capable devices of the classes the stored target names
PermittedUsable ==
    {h \in AvailableWithCompiler : TypeMask(Devs[h].type) \subseteq mTargetDevice}

\* C13: with a stored target that is a non-empty combination of the CPU, GPU and
\* ACCELERATOR bits only, the selected device is of a class of the mask, it is
\* the first available and compiler-capable device of the permitted classes in
\* the order accelerator, GPU, CPU (platform order within a class), and a device
\* search answers CL_DEVICE_NOT_FOUND exactly when no permitted class has an
\* available, compiler-capable device, whatever the other classes have.
C13_TargetFilter ==
    OnlyClasses(mTargetDevice) =>
        /\ ~mDevices.null =>
            /\ mDevice < Len(mDevices.list)
            /\ LET sel == mDevices.list[mDevice + 1]
               IN  /\ sel \in PermittedUsable
                   /\ \A k \in PermittedUsable : k = sel \/ MetBefore(sel, k)
        /\ (op = "GetUsedDevice" /\ NumCalls(calls, "Platform::get") = 1) =>
            /\ ret \in {CL_SUCCESS, CL_DEVICE_NOT_FOUND}
            /\ ret = CL_DEVICE_NOT_FOUND <=> PermittedUsable = {}
            /\ ret = CL_SUCCESS <=> ~mDevices.null

\* a CPU is selected under the target CPU | GPU although an accelerator of an
\* earlier platform is usable
C13_Witness ==
    /\ op = "GetUsedDevice" /\ ret = CL_SUCCESS
    /\ mTargetDevice = CL_DEVICE_TYPE_CPU \cup CL_DEVICE_TYPE_GPU
    /\ Devs[mDevices.list[mDevice + 1]].type = "CPU"
    /\ Devs[mDevices.list[mDevice + 1]].plat = 2
    /\ \E k \in AvailableWithCompiler : Devs[k].type = "ACCELERATOR" /\ Devs[k].plat = 1

\* the operations made of a program build or a kernel creation and what follows
Composite ==
    {"ExecuteKernelFromFile", "ExecuteKernelFromSource", "ExecuteKernelFromProgram",
     "GetKernelFromFile", "GetKernelFromSource", "GetKernelFromProgram"}

\* the enqueue calls of the library
Enqueues == {"enqueueNDRangeKernel", "enqueueReadBuffer", "enqueueWriteBuffer"}

\* C14: when the program creation, the program build or the kernel creation of
\* ExecuteKernelFromFile, ExecuteKernelFromSource, ExecuteKernelFromProgram or a
\* GetKernelFrom* operation returns a non-success code, that call is the last
\* library call of the operation and its code is the return value: no kernel
\* argument is bound, nothing is enqueued, no command queue is created by the
\* operation, and the tracked last event is unchanged.
C14_ShortCircuit ==
    [][\A i \in 1..Len(calls') :
          (/\ op' \in Composite
           /\ calls'[i].api \in {"Program", "build", "Kernel"}
           /\ calls'[i].err # CL_SUCCESS) =>
              /\ i = Len(calls')
              /\ ret' = calls'[i].err
              /\ NumCalls(calls', "setArg") = 0
              /\ \A j \in 1..Len(calls') : calls'[j].api \notin Enqueues
              /\ NumCalls(calls', "CommandQueue") = 0
              /\ mQueue' = mQueue
              /\ mEvent' = mEvent /\ issued' = issued]_vars

\* the build failed in an execution with two arguments, after an earlier
\* execution whose event is still the tracked one
C14_Witness ==
    /\ op = "ExecuteKernelFromSource" /\ arg.n = 2
    /\ ret = "CL_BUILD_PROGRAM_FAILURE"
    /\ mEvent = 1 /\ mQueue # 0
    /\ NumCalls(calls, "setArg") = 0

\* the kernel executions
Executions ==
    {"ExecuteKernelFromFile", "ExecuteKernelFromSource", "ExecuteKernelFromProgram",
     "ExecuteKernelFromKernel"}

\* the last execution had a kernel to run: it was given one, or it created one
HadKernel ==
    /\ op \in Executions
    /\ \/ op = "ExecuteKernelFromKernel"
       \/ \E i \in 1..Len(calls) : calls[i].api = "Kernel" /\ calls[i].err = CL_SUCCESS

\* the codes with which the initialisation of the queue (device search, context
\* creation, queue creation) fails
InitErrors ==
    {CL_DEVICE_NOT_FOUND, CL_OUT_OF_HOST_MEMORY, "CL_DEVICE_NOT_AVAILABLE",
     "CL_INVALID_QUEUE_PROPERTIES"}

\* C15: a kernel execution that has its kernel and n arguments makes exactly n
\* setArg calls, one after the other, the k-th of them binding the k-th argument
\* given to position k - 1; every one of them precedes the creation of the
\* command queue and the enqueue, of which there is at most one; in
\* ExecuteKernelFromKernel they precede every other library call; and when the
\* initialisation of the queue then fails, the n arguments have been bound,
\* nothing is enqueued, no queue exists and the initialisation error is returned.
C15_BindingOrder ==
    HadKernel =>
        /\ NumCalls(calls, "setArg") = arg.n
        /\ \A i \in 1..Len(calls) :
              (calls[i].api = "setArg" /\ calls[i].arg.KernelArg = 1) =>
                  /\ i + arg.n - 1 <= Len(calls)
                  /\ \A k \in 1..arg.n :
                        /\ calls[i + k - 1].api = "setArg"
                        /\ calls[i + k - 1].arg = [Position |-> k - 1, KernelArg |-> k]
        /\ \A i, j \in 1..Len(calls) :
              (/\ calls[i].api = "setArg"
               /\ calls[j].api \in {"CommandQueue", "enqueueNDRangeKernel"}) => i < j
        /\ op = "ExecuteKernelFromKernel" =>
              \A k \in 1..arg.n : calls[k].api = "setArg"
        /\ NumCalls(calls, "enqueueNDRangeKernel") <= 1
        /\ NumCalls(calls, "enqueueNDRangeKernel") = 1 <=> ret \notin InitErrors
        /\ ret \in InitErrors => mQueue = 0
        /\ ret \in {"CL_DEVICE_NOT_AVAILABLE", "CL_INVALID_QUEUE_PROPERTIES"} =>
              /\ calls[Len(calls)].api \in {"Context", "CommandQueue"}
              /\ calls[Len(calls)].err = ret

\* two arguments were bound to positions 0 and 1, then the creation of the queue
\* failed: its error is returned and nothing was enqueued
C15_Witness ==
    /\ op = "ExecuteKernelFromKernel" /\ arg.n = 2
    /\ ret = "CL_INVALID_QUEUE_PROPERTIES"
    /\ calls[1].api = "setArg" /\ calls[1].arg.Position = 0
    /\ calls[2].api = "setArg" /\ calls[2].arg.Position = 1
    /\ calls[Len(calls)].api = "CommandQueue"
    /\ mQueue = 0

\* the device class that /kernel/target/@type names
TargetOf(type) ==
    CASE type = "cpu" -> CL_DEVICE_TYPE_CPU
      [] type = "gpu" -> CL_DEVICE_TYPE_GPU
      [] type = "accelerator" -> CL_DEVICE_TYPE_ACCELERATOR
      [] OTHER -> CL_DEVICE_TYPE_ALL

\* C16: with one argument, a readable configuration, a kernel file that exists
\* and a non-empty kernel name, main() gives SetParameter(TargetDevice, ...) the
\* CPU, GPU or ACCELERATOR class for the type "cpu", "gpu" or "accelerator", and
\* CL_DEVICE_TYPE_ALL when the attribute is absent, empty or any other string;
\* no device was selected at that point, so the call returns CL_SUCCESS and the
\* object stores that target.
C16_DriverTarget ==
    /\ drv.pc = "SetParameter" =>
        /\ Runnable(drv)
        /\ drv.Kernel.Target = TargetOf(drv.type)
        /\ mDevices.null /\ op = "OpenCL"
    /\ (Runnable(drv) /\ drv.pc \in {"assert", "aborted", "returned"}) =>
        /\ op = "SetParameter"
        /\ arg = <<"TargetDevice", TargetOf(drv.type)>>
        /\ ret = CL_SUCCESS
        /\ mTargetDevice = TargetOf(drv.type)
        /\ mDevices.null

\* the type "accelerator" was stored as the target of the object
C16_Witness ==
    /\ drv.pc = "assert" /\ drv.type = "accelerator"
    /\ op = "SetParameter" /\ ret = CL_SUCCESS
    /\ mTargetDevice = CL_DEVICE_TYPE_ACCELERATOR

====
